---------------------------- MODULE Spec2Model ----------------------------
(***************************************************************************)
(* sql2any: one SQL result set rendered by the writers of src/conv         *)
(* (GFM text table, JSON, XLSX).  The model follows the column classifier  *)
(* (conv/mod.rs), the per-format renderer selection (convert) and the      *)
(* three write functions step by step.                                     *)
(*                                                                         *)
(* Text is a sequence of characters; a character is a one-character        *)
(* string, or the name of its code point ("U+00E9") when it is not ASCII.  *)
(***************************************************************************)
EXTENDS Integers, Sequences, FiniteSets, TLC

VARIABLES
    backend,    \* the Database type parameter DB: "Postgres" or "MySQL"
    schema,     \* column metadata of the executed query: <<[name, type]>>
    result,     \* &[DB::Row]: the fetched rows, each [cols, vals]
    writer,     \* which Converter::write is running: "none", "gfm", "json", "xlsx"
    pc,         \* position inside write
    columns,    \* local columns: Vec<Field>
    convs,      \* local convs: the renderers selected so far
    rowsDone,   \* number of rows of result already rendered
    body,       \* GFM local body: Vec<Vec<String>>
    cells,      \* history: what the renderers returned, by row and column
    ws,         \* XLSX local worksheet
    file,       \* the destination path's content
    ordered,    \* whether serde_json's Map keeps insertion order (build feature)
    panicMsg,   \* the panic that ended the export, or NoPanic
    narrow,     \* whether Decimal::to_f64 goes through i64 (rust_decimal version)
    mainPc,     \* position inside main: "lib" when write is called on its own
    scheme,     \* db_url.scheme()
    output,     \* args.output, by its extension
    trail       \* history: what main has done to the database and to output

vars == <<backend, schema, result, writer, pc, columns, convs, rowsDone,
          body, cells, ws, file, ordered, panicMsg, narrow, mainPc, scheme, output, trail>>

\* The state of main, which no Converter::write touches.
mainVars == <<mainPc, scheme, output, trail>>

\* ------------------------------------------------------------- bounds
MaxCols == 3
MaxRows == 2

\* --------------------------------------------------------------- text
\* Printable ASCII in code order, starting at 32.
Ascii ==
    << " ", "!", "\"", "#", "$", "%", "&", "'", "(", ")", "*", "+", ",", "-", ".", "/",
       "0", "1", "2", "3", "4", "5", "6", "7", "8", "9", ":", ";", "<", "=", ">", "?",
       "@", "A", "B", "C", "D", "E", "F", "G", "H", "I", "J", "K", "L", "M", "N", "O",
       "P", "Q", "R", "S", "T", "U", "V", "W", "X", "Y", "Z", "[", "\\", "]", "^", "_",
       "U+0060", "a", "b", "c", "d", "e", "f", "g", "h", "i", "j", "k", "l", "m", "n", "o",
       "p", "q", "r", "s", "t", "u", "v", "w", "x", "y", "z", "{", "|", "}", "~" >>

\* Characters outside ASCII that the sample data uses, with their code points.
Latin1 == { [ch |-> "U+00E9", code |-> 233] }

NewLine == "\n"

Chars == {Ascii[i] : i \in 1..Len(Ascii)} \cup {l.ch : l \in Latin1} \cup {NewLine}

\* The code point of every character.
CodePoints ==
    [ch \in Chars |->
        IF ch = NewLine THEN 10
        ELSE IF \E l \in Latin1 : l.ch = ch
             THEN (CHOOSE l \in Latin1 : l.ch = ch).code
             ELSE 31 + (CHOOSE i \in 1..Len(Ascii) : Ascii[i] = ch)]

CharCode(ch) == CodePoints[ch]

\* Bytes of the character's UTF-8 encoding.
Utf8Len(ch) ==
    IF CharCode(ch) < 128 THEN 1 ELSE IF CharCode(ch) < 2048 THEN 2 ELSE 3

\* str::len(): the length of a String in bytes.
RECURSIVE ByteLen(_)
ByteLen(s) == IF s = <<>> THEN 0 ELSE Utf8Len(Head(s)) + ByteLen(Tail(s))

\* str::chars().count(): the number of characters.
CharCount(s) == Len(s)

\* Ord for String: byte-wise lexicographic, which is code-point order.
RECURSIVE StrLess(_, _)
StrLess(a, b) ==
    IF b = <<>> THEN FALSE
    ELSE IF a = <<>> THEN TRUE
    ELSE IF Head(a) = Head(b) THEN StrLess(Tail(a), Tail(b))
    ELSE CharCode(Head(a)) < CharCode(Head(b))

\* "x".repeat(n)
RECURSIVE Repeat(_, _)
Repeat(ch, n) == IF n <= 0 THEN <<>> ELSE <<ch>> \o Repeat(ch, n - 1)

\* [s_1, ..., s_n].join(sep)
RECURSIVE Join(_, _)
Join(parts, sep) ==
    IF parts = <<>> THEN <<>>
    ELSE IF Len(parts) = 1 THEN parts[1]
    ELSE parts[1] \o sep \o Join(Tail(parts), sep)

Digit(d) == Ascii[17 + d]

\* Display of an unsigned integer.
RECURSIVE NatToText(_)
NatToText(n) ==
    IF n < 10 THEN <<Digit(n)>> ELSE NatToText(n \div 10) \o <<Digit(n % 10)>>

\* i8/i16/i32/i64::to_string()
IntToText(n) == IF n < 0 THEN <<"-">> \o NatToText(-n) ELSE NatToText(n)

\* {:0w$}: an unsigned integer zero-padded on the left to width w.
ZeroPad(n, w) == Repeat("0", w - Len(NatToText(n))) \o NatToText(n)


\* ---------------------------------------------------------- FieldKind
\* enum FieldKind: a unit variant is [tag], UNKNOWN(String) is [tag, name].
Kind(tag) == [tag |-> tag]
UNKNOWN(name) == [tag |-> "UNKNOWN", name |-> name]

SignedKinds == {"INT8", "INT16", "INT32", "INT64"}
UnsignedKinds == {"UINT8", "UINT16", "UINT32", "UINT64"}
FloatKinds == {"FLOAT32", "FLOAT64"}
TemporalKinds == {"DATE", "TIME", "DATETIME", "DATETIMETZ"}
SupportedKinds ==
    SignedKinds \cup FloatKinds \cup TemporalKinds \cup {"STR", "BOOL", "DECIMAL", "JSON"}

\* The type names the drivers report (TypeInfo::name()), with their lower-cased
\* spelling: every spelling of get_common_type, "timestamp", and two names
\* that no arm matches.
TypeNameTable ==
    << <<"STRING", "string">>, <<"VARCHAR", "varchar">>, <<"TINYTEXT", "tinytext">>,
       <<"TEXT", "text">>, <<"MEDIUMTEXT", "mediumtext">>, <<"LONGTEXT", "longtext">>,
       <<"CHAR", "char">>, <<"BPCHAR", "bpchar">>, <<"TINYINT", "tinyint">>,
       <<"INT2", "int2">>, <<"SMALLINT", "smallint">>, <<"INT4", "int4">>,
       <<"INT", "int">>, <<"MEDIUMINT", "mediumint">>, <<"INT8", "int8">>,
       <<"BIGINT", "bigint">>, <<"TINYINT UNSIGNED", "tinyint unsigned">>,
       <<"SMALLINT UNSIGNED", "smallint unsigned">>, <<"INT UNSIGNED", "int unsigned">>,
       <<"MEDIUMINT UNSIGNED", "mediumint unsigned">>,
       <<"BIGINT UNSIGNED", "bigint unsigned">>, <<"FLOAT4", "float4">>,
       <<"FLOAT", "float">>, <<"FLOAT8", "float8">>, <<"DOUBLE", "double">>,
       <<"DECIMAL", "decimal">>, <<"NUMERIC", "numeric">>, <<"JSON", "json">>,
       <<"JSONB", "jsonb">>, <<"BOOL", "bool">>, <<"BOOLEAN", "boolean">>,
       <<"DATE", "date">>, <<"TIME", "time">>, <<"DATETIME", "datetime">>,
       <<"TIMESTAMPTZ", "timestamptz">>, <<"TIMESTAMP", "timestamp">>,
       <<"INTERVAL", "interval">>, <<"UUID", "uuid">> >>

TypeNames == {TypeNameTable[i][1] : i \in 1..Len(TypeNameTable)}
LowerNames == {TypeNameTable[i][2] : i \in 1..Len(TypeNameTable)}

\* str::to_lowercase() on a reported type name.
to_lowercase(name) ==
    TypeNameTable[CHOOSE i \in 1..Len(TypeNameTable) : TypeNameTable[i][1] = name][2]

\* Variant whose catch-all arm drops the name it matched.
get_common_type_drops_name(name) ==
    CASE name \in {"string", "varchar", "tinytext", "text", "mediumtext", "longtext",
                   "char", "bpchar"} -> Kind("STR")
      [] name = "tinyint" -> Kind("INT8")
      [] name \in {"int2", "smallint"} -> Kind("INT16")
      [] name \in {"int4", "int", "mediumint"} -> Kind("INT32")
      [] name \in {"int8", "bigint"} -> Kind("INT64")
      [] name = "tinyint unsigned" -> Kind("UINT8")
      [] name = "smallint unsigned" -> Kind("UINT16")
      [] name \in {"int unsigned", "mediumint unsigned"} -> Kind("UINT32")
      [] name = "bigint unsigned" -> Kind("UINT64")
      [] name \in {"float4", "float"} -> Kind("FLOAT32")
      [] name \in {"float8", "double"} -> Kind("FLOAT64")
      [] name \in {"decimal", "numeric"} -> Kind("DECIMAL")
      [] name \in {"json", "jsonb"} -> Kind("JSON")
      [] name \in {"bool", "boolean"} -> Kind("BOOL")
      [] name = "date" -> Kind("DATE")
      [] name = "time" -> Kind("TIME")
      [] name = "datetime" -> Kind("DATETIME")
      [] name = "timestamptz" -> Kind("DATETIMETZ")
      [] OTHER -> UNKNOWN("")

\* fn get_common_type(name: &str) -> FieldKind
get_common_type(name) ==
    CASE name \in {"string", "varchar", "tinytext", "text", "mediumtext", "longtext",
                   "char", "bpchar"} -> Kind("STR")
      [] name = "tinyint" -> Kind("INT8")
      [] name \in {"int2", "smallint"} -> Kind("INT16")
      [] name \in {"int4", "int", "mediumint"} -> Kind("INT32")
      [] name \in {"int8", "bigint"} -> Kind("INT64")
      [] name = "tinyint unsigned" -> Kind("UINT8")
      [] name = "smallint unsigned" -> Kind("UINT16")
      [] name \in {"int unsigned", "mediumint unsigned"} -> Kind("UINT32")
      [] name = "bigint unsigned" -> Kind("UINT64")
      [] name \in {"float4", "float"} -> Kind("FLOAT32")
      [] name \in {"float8", "double"} -> Kind("FLOAT64")
      [] name \in {"decimal", "numeric"} -> Kind("DECIMAL")
      [] name \in {"json", "jsonb"} -> Kind("JSON")
      [] name \in {"bool", "boolean"} -> Kind("BOOL")
      [] name = "date" -> Kind("DATE")
      [] name = "time" -> Kind("TIME")
      [] name = "datetime" -> Kind("DATETIME")
      [] name = "timestamptz" -> Kind("DATETIMETZ")
      [] OTHER -> UNKNOWN(name)

\* struct Field { name, kind }
Field(name, kind) == [name |-> name, kind |-> kind]

\* Variant of the Postgres conversion that consults the shared table first.
FromPgColumn_table_first(col) ==
    Field(col.name, get_common_type(to_lowercase(col.type)))

\* impl From<&PgColumn> for Field
FromPgColumn(col) ==
    LET name == to_lowercase(col.type)
    IN  Field(col.name,
              IF name = "timestamp" THEN Kind("DATETIME") ELSE get_common_type(name))

\* impl From<&MySqlColumn> for Field
FromMySqlColumn(col) ==
    LET name == to_lowercase(col.type)
    IN  Field(col.name,
              IF name = "timestamp" THEN Kind("DATETIMETZ") ELSE get_common_type(name))

\* c.into() for &DB::Column, resolved by the Database type parameter.
ColumnInto(db, col) ==
    IF db = "Postgres" THEN FromPgColumn(col) ELSE FromMySqlColumn(col)


\* ------------------------------------------------------ column values
\* A value as the database returns it, before decoding.  SQL NULL is SqlNull.
SqlNull == [t |-> "null"]
IntValue(n) == [t |-> "int", n |-> n]
\* A finite float is sig / 10^scale with no trailing zero digit in sig; nan marks NaN.
FloatValue(sig, scale) == [t |-> "float", nan |-> FALSE, sig |-> sig, scale |-> scale]
NaN == [t |-> "float", nan |-> TRUE, sig |-> 0, scale |-> 0]
StrValue(s) == [t |-> "str", s |-> s]
BoolValue(b) == [t |-> "bool", b |-> b]
\* rust_decimal::Decimal: units / 10^scale, the scale kept as stored.
DecimalValue(units, scale) == [t |-> "decimal", units |-> units, scale |-> scale]
\* The Decimal 2^64, scale 0: the 96-bit mantissa's words are hi = 1, mid = 0,
\* lo = 0.  It is an integer that no i64 holds.
BigDecimal == [t |-> "decimal", hi |-> 1]
\* The f64 2^e, for a power of two beyond the 32-bit range.
FloatPow2(e) == [t |-> "float", nan |-> FALSE, pow2 |-> e]
DateValue(y, m, d) == [t |-> "date", y |-> y, m |-> m, d |-> d]
TimeValue(h, mi, sec) == [t |-> "time", h |-> h, mi |-> mi, sec |-> sec]
DateTimeValue(date, time) == [t |-> "datetime", date |-> date, time |-> time]
\* DateTime<Local>: the local wall-clock time and the offset from UTC in minutes.
DateTimeTzValue(date, time, off) ==
    [t |-> "datetimetz", date |-> date, time |-> time, off |-> off]
JsonColumnValue(j) == [t |-> "json", j |-> j]
\* A value of a type no renderer decodes.
OpaqueValue == [t |-> "opaque"]

\* serde_json::Value
JNull == [j |-> "Null"]
JBool(b) == [j |-> "Bool", b |-> b]
JInt(n) == [j |-> "Number", i |-> n]
JFloat(f) == [j |-> "Number", f |-> f]
JString(s) == [j |-> "String", s |-> s]
JArray(items) == [j |-> "Array", items |-> items]
\* An object is its members in serialization order: <<[k, v], ...>>.
JObject(members) == [j |-> "Object", members |-> members]

\* The values a cell of each kind takes, by row variant: 1 an everyday value,
\* 2 an edge value of the type, 3 SQL NULL.  Variant 4 is a value beyond the
\* 64-bit integers, which only DECIMAL has.
RowVariants == {1, 2, 3}

SampleValue(kind, variant) ==
    IF variant = 3 THEN SqlNull
    ELSE CASE kind.tag = "INT8" -> IF variant = 1 THEN IntValue(7) ELSE IntValue(-128)
           [] kind.tag = "INT16" -> IF variant = 1 THEN IntValue(300) ELSE IntValue(-5)
           [] kind.tag = "INT32" -> IF variant = 1 THEN IntValue(1) ELSE IntValue(42)
           [] kind.tag = "INT64" ->
                IF variant = 1 THEN IntValue(1234567890) ELSE IntValue(-9)
           [] kind.tag = "FLOAT32" -> IF variant = 1 THEN FloatValue(2, 0) ELSE NaN
           [] kind.tag = "FLOAT64" -> IF variant = 1 THEN FloatValue(-15, 1) ELSE NaN
           [] kind.tag = "STR" ->
                IF variant = 1 THEN StrValue(<<"A", "n", "n">>)
                ELSE StrValue(<<"J", "o", "s", "U+00E9">>)
           [] kind.tag = "BOOL" -> BoolValue(variant = 1)
           [] kind.tag = "DECIMAL" ->
                IF variant = 1 THEN DecimalValue(1250, 2)
                ELSE IF variant = 4 THEN BigDecimal ELSE DecimalValue(-75, 2)
           [] kind.tag = "DATE" ->
                IF variant = 1 THEN DateValue(2024, 1, 15) ELSE DateValue(1999, 12, 31)
           [] kind.tag = "TIME" ->
                IF variant = 1 THEN TimeValue(9, 30, 0) ELSE TimeValue(23, 59, 59)
           [] kind.tag = "DATETIME" ->
                IF variant = 1
                THEN DateTimeValue(DateValue(2024, 1, 15), TimeValue(9, 30, 0))
                ELSE DateTimeValue(DateValue(1999, 12, 31), TimeValue(23, 59, 59))
           [] kind.tag = "DATETIMETZ" ->
                IF variant = 1
                THEN DateTimeTzValue(DateValue(2024, 1, 15), TimeValue(9, 30, 0), 60)
                ELSE DateTimeTzValue(DateValue(1999, 12, 31), TimeValue(23, 59, 59), -330)
           [] kind.tag = "JSON" ->
                IF variant = 1
                THEN JsonColumnValue(JObject(<<[k |-> <<"a">>, v |-> JInt(1)]>>))
                ELSE JsonColumnValue(JString(<<"x", "\"">>))
           [] OTHER -> OpaqueValue

\* ------------------------------------------------------------ Display
\* 2^64 = 18446744073709551616 in full, and the 17 digits that identify the
\* f64 2^64 (1.8446744073709552e19).
TwoTo64Text ==
    <<"1", "8", "4", "4", "6", "7", "4", "4", "0", "7", "3", "7", "0", "9", "5", "5",
      "1", "6", "1", "6">>
TwoTo64Shortest ==
    <<"1", "8", "4", "4", "6", "7", "4", "4", "0", "7", "3", "7", "0", "9", "5", "5", "2">>

\* <f32/f64 as Display>: shortest digits, no exponent in the sampled range,
\* no fraction for an integral value.
FloatToText(f) ==
    IF f.nan THEN <<"N", "a", "N">>
    ELSE IF "pow2" \in DOMAIN f THEN TwoTo64Shortest \o <<"0", "0", "0">>
    ELSE LET mag == IF f.sig < 0 THEN -f.sig ELSE f.sig
             p10 == IF f.scale = 0 THEN 1 ELSE IF f.scale = 1 THEN 10 ELSE 100
             sign == IF f.sig < 0 THEN <<"-">> ELSE <<>>
         IN  IF f.scale = 0 THEN sign \o NatToText(mag)
             ELSE sign \o NatToText(mag \div p10) \o <<".">> \o ZeroPad(mag % p10, f.scale)

\* <Decimal as Display>: every digit of the stored scale is printed.
DecimalToText(d) ==
    IF "hi" \in DOMAIN d THEN TwoTo64Text ELSE
    LET mag == IF d.units < 0 THEN -d.units ELSE d.units
        p10 == IF d.scale = 0 THEN 1 ELSE IF d.scale = 1 THEN 10 ELSE 100
        sign == IF d.units < 0 THEN <<"-">> ELSE <<>>
    IN  IF d.scale = 0 THEN sign \o NatToText(mag)
        ELSE sign \o NatToText(mag \div p10) \o <<".">> \o ZeroPad(mag % p10, d.scale)

\* <bool as Display>
BoolToText(b) == IF b THEN <<"t", "r", "u", "e">> ELSE <<"f", "a", "l", "s", "e">>

\* <NaiveDate as Display>: %Y-%m-%d
DateToText(d) == ZeroPad(d.y, 4) \o <<"-">> \o ZeroPad(d.m, 2) \o <<"-">> \o ZeroPad(d.d, 2)

\* <NaiveTime as Display>: %H:%M:%S (the sampled times have no fraction)
TimeToText(t) == ZeroPad(t.h, 2) \o <<":">> \o ZeroPad(t.mi, 2) \o <<":">> \o ZeroPad(t.sec, 2)

\* <NaiveDateTime as Display>: date, a space, time
DateTimeToText(dt) == DateToText(dt.date) \o <<" ">> \o TimeToText(dt.time)

\* The offset as chrono prints it: +HH:MM
OffsetToText(off) ==
    LET mag == IF off < 0 THEN -off ELSE off
    IN  <<IF off < 0 THEN "-" ELSE "+">> \o ZeroPad(mag \div 60, 2) \o <<":">>
        \o ZeroPad(mag % 60, 2)

\* <DateTime<Local> as Display>: local date and time, a space, the offset
DateTimeTzToText(dt) ==
    DateToText(dt.date) \o <<" ">> \o TimeToText(dt.time) \o <<" ">> \o OffsetToText(dt.off)

\* DateTime::naive_local()
naive_local(dt) == DateTimeValue(dt.date, dt.time)

\* Default::default() of the four temporal types: the Unix epoch / midnight.
DefaultDate == DateValue(1970, 1, 1)
DefaultTime == TimeValue(0, 0, 0)
DefaultDateTime == DateTimeValue(DefaultDate, DefaultTime)
DefaultDateTimeTz == DateTimeTzValue(DefaultDate, DefaultTime, 0)

\* ------------------------------------------------- JSON serialization
\* serde_json's string escaping for the characters the samples use.
JsonEscape(ch) ==
    IF ch = "\"" THEN <<"\\", "\"">>
    ELSE IF ch = "\\" THEN <<"\\", "\\">>
    ELSE IF ch = NewLine THEN <<"\\", "n">>
    ELSE <<ch>>

RECURSIVE JsonEscapeAll(_)
JsonEscapeAll(s) ==
    IF s = <<>> THEN <<>> ELSE JsonEscape(Head(s)) \o JsonEscapeAll(Tail(s))

JsonQuote(s) == <<"\"">> \o JsonEscapeAll(s) \o <<"\"">>

\* serde_json prints a finite float with a fraction, "2.0" for 2.
JsonFloatToText(f) ==
    IF "pow2" \in DOMAIN f
    THEN <<Head(TwoTo64Shortest), ".">> \o Tail(TwoTo64Shortest) \o <<"e", "1", "9">>
    ELSE IF f.scale = 0 THEN FloatToText(f) \o <<".", "0">> ELSE FloatToText(f)

\* serde_json::to_string / to_writer: the compact form.
RECURSIVE JsonText(_)
JsonText(v) ==
    CASE v.j = "Null" -> <<"n", "u", "l", "l">>
      [] v.j = "Bool" -> BoolToText(v.b)
      [] v.j = "Number" ->
           IF "i" \in DOMAIN v THEN IntToText(v.i) ELSE JsonFloatToText(v.f)
      [] v.j = "String" -> JsonQuote(v.s)
      [] v.j = "Array" ->
           <<"[">> \o Join([i \in 1..Len(v.items) |-> JsonText(v.items[i])], <<",">>)
           \o <<"]">>
      [] v.j = "Object" ->
           <<"{">>
           \o Join([i \in 1..Len(v.members) |->
                       JsonQuote(v.members[i].k) \o <<":">> \o JsonText(v.members[i].v)],
                   <<",">>)
           \o <<"}">>


\* ----------------------------------------------------------- decoding
\* The database value a Rust type decodes from.
ValueTag(ty) ==
    CASE ty \in {"i8", "i16", "i32", "i64"} -> "int"
      [] ty \in {"f32", "f64"} -> "float"
      [] ty = "&str" -> "str"
      [] ty = "bool" -> "bool"
      [] ty = "Decimal" -> "decimal"
      [] ty = "NaiveDate" -> "date"
      [] ty = "NaiveTime" -> "time"
      [] ty = "NaiveDateTime" -> "datetime"
      [] ty = "DateTime<Local>" -> "datetimetz"
      [] ty = "JsonValue" -> "json"

\* Outcome of a call: the value returned, or the panic that ended it.
Returned(val) == [panic |-> FALSE, val |-> val]
Panicked(msg) == [panic |-> TRUE, msg |-> msg]

\* Row::get::<T, _>(c) is try_get(c).unwrap(): it panics when the index is out
\* of range, when the value is NULL and T is not an Option, and when the
\* value's type is not T's.  The outcome is Returned(value), a NULL decoded as
\* Option<T> being Returned(SqlNull), or Panicked.
RowGet(ty, optional, c, rw) ==
    IF c \notin 1..Len(rw.vals) THEN Panicked("ColumnIndexOutOfBounds")
    ELSE IF rw.vals[c] = SqlNull
         THEN IF optional THEN Returned(SqlNull) ELSE Panicked("UnexpectedNullError")
         ELSE IF rw.vals[c].t = ValueTag(ty) THEN Returned(rw.vals[c])
              ELSE Panicked("mismatched types")

\* T::to_string() of a decoded value.
ToText(v) ==
    CASE v.t = "int" -> IntToText(v.n)
      [] v.t = "float" -> FloatToText(v)
      [] v.t = "str" -> v.s
      [] v.t = "bool" -> BoolToText(v.b)
      [] v.t = "decimal" -> DecimalToText(v)
      [] v.t = "date" -> DateToText(v)
      [] v.t = "time" -> TimeToText(v)
      [] v.t = "datetime" -> DateTimeToText(v)
      [] v.t = "datetimetz" -> DateTimeTzToText(v)
      [] v.t = "json" -> JsonText(v.j)

\* Default::default() of the type an Option<T> holds.
DefaultOf(ty) ==
    CASE ty = "NaiveDate" -> DefaultDate
      [] ty = "NaiveTime" -> DefaultTime
      [] ty = "NaiveDateTime" -> DefaultDateTime
      [] ty = "DateTime<Local>" -> DefaultDateTimeTz

\* ToPrimitive::to_f64 for Decimal: the nearest float, given as its shortest
\* decimal digits (the sampled decimals are exact in binary).
RECURSIVE StripZeros(_, _)
StripZeros(units, scale) ==
    IF scale > 0 /\ units % 10 = 0 THEN StripZeros(units \div 10, scale - 1)
    ELSE FloatValue(units, scale)

\* Variant of to_f64 that is Some for every Decimal.
Decimal_to_f64_always_some(d) ==
    IF "hi" \in DOMAIN d THEN [some |-> TRUE, f |-> FloatPow2(64)]
    ELSE [some |-> TRUE, f |-> StripZeros(d.units, d.scale)]

\* With scale 0 the older rust_decimal converts through to_i64, which is None
\* beyond the 64-bit range; the newer one goes through i128 and is always Some.
Decimal_to_f64(d) ==
    IF "hi" \in DOMAIN d
    THEN IF narrow THEN [some |-> FALSE] ELSE [some |-> TRUE, f |-> FloatPow2(64)]
    ELSE [some |-> TRUE, f |-> StripZeros(d.units, d.scale)]

\* n as f64 and the integer-to-f64 conversions of the cell writers.
AsF64(n) == FloatValue(n, 0)

\* The panic of todo!().
TodoPanic == Panicked("not yet implemented")

\* ------------------------------------------------- GFM cell renderers
\* A renderer is the closure a macro expands to: [mac, ty].
Closure(mac, ty) == [mac |-> mac, ty |-> ty]

\* GFM::convert(field): the renderer of the field's kind, or the todo!() panic.
GfmConvert(field) ==
    CASE field.kind.tag = "INT8" -> Returned(Closure("gfm_write", "i8"))
      [] field.kind.tag = "INT16" -> Returned(Closure("gfm_write", "i16"))
      [] field.kind.tag = "INT32" -> Returned(Closure("gfm_write", "i32"))
      [] field.kind.tag = "INT64" -> Returned(Closure("gfm_write", "i64"))
      [] field.kind.tag \in UnsignedKinds -> TodoPanic
      [] field.kind.tag = "FLOAT32" -> Returned(Closure("gfm_write", "f32"))
      [] field.kind.tag = "FLOAT64" -> Returned(Closure("gfm_write", "f64"))
      [] field.kind.tag = "STR" -> Returned(Closure("gfm_write", "&str"))
      [] field.kind.tag = "BOOL" -> Returned(Closure("gfm_write", "bool"))
      [] field.kind.tag = "DECIMAL" -> Returned(Closure("gfm_write", "Decimal"))
      [] field.kind.tag = "DATE" -> Returned(Closure("gfm_write_date", "NaiveDate"))
      [] field.kind.tag = "TIME" -> Returned(Closure("gfm_write_date", "NaiveTime"))
      [] field.kind.tag = "DATETIME" ->
           Returned(Closure("gfm_write_date", "NaiveDateTime"))
      [] field.kind.tag = "DATETIMETZ" ->
           Returned(Closure("gfm_write_date", "DateTime<Local>"))
      [] field.kind.tag = "JSON" -> Returned(Closure("gfm_write", "JsonValue"))
      [] field.kind.tag = "UNKNOWN" -> TodoPanic

\* macro gfm_write!: |c, rw| rw.get::<$ty, _>(c).to_string()
\* Variant that decodes an Option and renders a NULL as an empty cell.
gfm_write_nullable(ty, c, rw) ==
    LET got == RowGet(ty, TRUE, c, rw)
    IN  IF got.panic THEN got
        ELSE IF got.val = SqlNull THEN Returned(<<>>)
        ELSE Returned(ToText(got.val))

gfm_write(ty, c, rw) ==
    LET got == RowGet(ty, FALSE, c, rw)
    IN  IF got.panic THEN got ELSE Returned(ToText(got.val))

\* macro gfm_write_date!: |c, rw| rw.get::<Option<T>, _>(c).unwrap_or_default().to_string()
gfm_write_date(ty, c, rw) ==
    LET got == RowGet(ty, TRUE, c, rw)
    IN  IF got.panic THEN got
        ELSE IF got.val = SqlNull THEN Returned(ToText(DefaultOf(ty)))
        ELSE Returned(ToText(got.val))

\* Calling a GFM renderer: conv(c, rw).
GfmCall(conv, c, rw) ==
    IF conv.mac = "gfm_write" THEN gfm_write(conv.ty, c, rw)
    ELSE gfm_write_date(conv.ty, c, rw)


\* ------------------------------------------------ JSON cell renderers
\* From<T> for serde_json::Value.  A float that is NaN (or infinite) becomes
\* Value::Null.
IntoValue(v) ==
    CASE v.t = "int" -> JInt(v.n)
      [] v.t = "float" -> IF v.nan THEN JNull ELSE JFloat(v)
      [] v.t = "str" -> JString(v.s)
      [] v.t = "bool" -> JBool(v.b)
      [] v.t = "json" -> v.j

\* JSON::convert(field): the renderer of the field's kind, or the todo!() panic.
JsonConvert(field) ==
    CASE field.kind.tag = "INT8" -> Returned(Closure("json_write", "i8"))
      [] field.kind.tag = "INT16" -> Returned(Closure("json_write", "i16"))
      [] field.kind.tag = "INT32" -> Returned(Closure("json_write", "i32"))
      [] field.kind.tag = "INT64" -> Returned(Closure("json_write", "i64"))
      [] field.kind.tag \in UnsignedKinds -> TodoPanic
      [] field.kind.tag = "FLOAT32" -> Returned(Closure("json_write", "f32"))
      [] field.kind.tag = "FLOAT64" -> Returned(Closure("json_write", "f64"))
      [] field.kind.tag = "STR" -> Returned(Closure("json_write", "&str"))
      [] field.kind.tag = "BOOL" -> Returned(Closure("json_write", "bool"))
      [] field.kind.tag = "DECIMAL" -> Returned(Closure("json_decimal", "Decimal"))
      [] field.kind.tag = "DATE" -> Returned(Closure("json_write_date", "NaiveDate"))
      [] field.kind.tag = "TIME" -> Returned(Closure("json_write_date", "NaiveTime"))
      [] field.kind.tag = "DATETIME" ->
           Returned(Closure("json_write_date", "NaiveDateTime"))
      [] field.kind.tag = "DATETIMETZ" ->
           Returned(Closure("json_write_date", "DateTime<Local>"))
      [] field.kind.tag = "JSON" -> Returned(Closure("json_write", "JsonValue"))
      [] field.kind.tag = "UNKNOWN" -> TodoPanic

\* macro json_write!: |c, rw| rw.get::<$ty, _>(c).into()
json_write(ty, c, rw) ==
    LET got == RowGet(ty, FALSE, c, rw)
    IN  IF got.panic THEN got ELSE Returned(IntoValue(got.val))

\* macro json_write_date!: |c, rw| rw.get::<Option<T>, _>(c).map(|d| d.to_string()).into()
json_write_date(ty, c, rw) ==
    LET got == RowGet(ty, TRUE, c, rw)
    IN  IF got.panic THEN got
        ELSE IF got.val = SqlNull THEN Returned(JNull)
        ELSE Returned(JString(ToText(got.val)))

\* Variant of the DECIMAL closure that hands over the decimal's text.
json_decimal_as_text(c, rw) ==
    LET got == RowGet("Decimal", FALSE, c, rw)
    IN  IF got.panic THEN got ELSE Returned(JString(ToText(got.val)))

\* The DECIMAL closure: |c, rw| rw.get::<Decimal, _>(c).to_f64().unwrap().into()
json_decimal(c, rw) ==
    LET got == RowGet("Decimal", FALSE, c, rw)
    IN  IF got.panic THEN got
        ELSE IF ~Decimal_to_f64(got.val).some
             THEN Panicked("called Option::unwrap() on a None value")
             ELSE Returned(IntoValue(Decimal_to_f64(got.val).f))

\* Calling a JSON renderer: conv(c, rw).
JsonCall(conv, c, rw) ==
    IF conv.mac = "json_write" THEN json_write(conv.ty, c, rw)
    ELSE IF conv.mac = "json_write_date" THEN json_write_date(conv.ty, c, rw)
    ELSE json_decimal(c, rw)

\* ------------------------------------------------ XLSX cell renderers
\* enum XF and the num_format of each entry of the palette xf.
NumFormat ==
    [Bold |-> "", Int |-> "#,##0", Eur |-> "#,##0.00", Date |-> "dd/mm/yyyy",
     Time |-> "hh:mm", Stamp |-> "dd/mm/yyyy hh:mm:ss"]

\* What a cell holds after Worksheet::write / write_with_format.
XNumber(f) == [x |-> "Number", f |-> f]
XString(s) == [x |-> "String", s |-> s]
XBoolean(b) == [x |-> "Boolean", b |-> b]
XDateTime(d) == [x |-> "DateTime", d |-> d]

\* IntoExcelData of a decoded value.
IntoExcelData(v) ==
    CASE v.t = "int" -> XNumber(AsF64(v.n))
      [] v.t = "float" -> XNumber(v)
      [] v.t = "str" -> XString(v.s)
      [] v.t = "bool" -> XBoolean(v.b)
      [] v.t \in {"date", "time", "datetime"} -> XDateTime(v)

\* One positioned write; fmt is an XF entry or "None" (Worksheet::write).
CellWrite(r, c, data, fmt) == [row |-> r, col |-> c, data |-> data, fmt |-> fmt]

\* A renderer of the spreadsheet: [mac, ty, fmt].
XClosure(mac, ty, fmt) == [mac |-> mac, ty |-> ty, fmt |-> fmt]

\* XLSX::convert(field): the renderer of the field's kind, or the todo!() panic.
XlsxConvert(field) ==
    CASE field.kind.tag = "INT8" -> Returned(XClosure("xlsx_write_fmt", "i8", "Int"))
      [] field.kind.tag = "INT16" -> Returned(XClosure("xlsx_write_fmt", "i16", "Int"))
      [] field.kind.tag = "INT32" -> Returned(XClosure("xlsx_write_fmt", "i32", "Int"))
      [] field.kind.tag = "INT64" -> Returned(XClosure("xlsx_int64", "i64", "Int"))
      [] field.kind.tag \in UnsignedKinds -> TodoPanic
      [] field.kind.tag = "FLOAT32" -> Returned(XClosure("xlsx_write_fmt", "f32", "Eur"))
      [] field.kind.tag = "FLOAT64" -> Returned(XClosure("xlsx_write_fmt", "f64", "Eur"))
      [] field.kind.tag = "STR" -> Returned(XClosure("xlsx_write", "&str", "None"))
      [] field.kind.tag = "BOOL" -> Returned(XClosure("xlsx_write", "bool", "None"))
      [] field.kind.tag = "DECIMAL" ->
           Returned(XClosure("xlsx_decimal", "Decimal", "Eur"))
      [] field.kind.tag = "DATE" ->
           Returned(XClosure("xlsx_write_opt", "NaiveDate", "Date"))
      [] field.kind.tag = "TIME" ->
           Returned(XClosure("xlsx_write_opt", "NaiveTime", "Time"))
      [] field.kind.tag = "DATETIME" ->
           Returned(XClosure("xlsx_write_opt", "NaiveDateTime", "Stamp"))
      [] field.kind.tag = "DATETIMETZ" ->
           Returned(XClosure("xlsx_datetimetz", "DateTime<Local>", "Stamp"))
      [] field.kind.tag = "JSON" -> Returned(XClosure("xlsx_json", "JsonValue", "None"))
      [] field.kind.tag = "UNKNOWN" -> TodoPanic

\* Calling a spreadsheet renderer: conv(r, c, ws, rw, fm).  r and c are the
\* sheet's 0-based row and column; the row's values are indexed from 1 here.
\* The value returned is the sequence of writes made (none for a NULL Option).
XlsxCall(conv, r, c, rw) ==
    LET optional == conv.mac \in {"xlsx_write_opt", "xlsx_datetimetz"}
        got == RowGet(conv.ty, optional, c + 1, rw)
    IN  IF got.panic THEN got
        ELSE CASE conv.mac = "xlsx_write_fmt" ->
                    Returned(<<CellWrite(r, c, IntoExcelData(got.val), conv.fmt)>>)
               [] conv.mac = "xlsx_write" ->
                    Returned(<<CellWrite(r, c, IntoExcelData(got.val), "None")>>)
               [] conv.mac = "xlsx_write_opt" ->
                    IF got.val = SqlNull THEN Returned(<<>>)
                    ELSE Returned(<<CellWrite(r, c, IntoExcelData(got.val), conv.fmt)>>)
               [] conv.mac = "xlsx_int64" ->
                    Returned(<<CellWrite(r, c, XNumber(AsF64(got.val.n)), "Int")>>)
               [] conv.mac = "xlsx_decimal" ->
                    IF ~Decimal_to_f64(got.val).some
                    THEN Panicked("called Option::unwrap() on a None value")
                    ELSE Returned(<<CellWrite(r, c, XNumber(Decimal_to_f64(got.val).f),
                                              "Eur")>>)
               [] conv.mac = "xlsx_datetimetz" ->
                    IF got.val = SqlNull THEN Returned(<<>>)
                    ELSE Returned(<<CellWrite(r, c, XDateTime(naive_local(got.val)),
                                              "Stamp")>>)
               [] conv.mac = "xlsx_json" ->
                    Returned(<<CellWrite(r, c, XString(JsonText(got.val.j)), "None")>>)


\* ------------------------------------------------------- the inputs
Backends == {"Postgres", "MySQL"}

Column(name, type) == [name |-> name, type |-> type]

\* One column of every reported type, named "val".
KindSchemas == { <<Column(<<"v", "a", "l">>, t)>> : t \in TypeNames }

\* The columns of the multi-column result sets: an integer, a string and a
\* date column, and a second string column that shares the integer's name.
ColumnPool ==
    { Column(<<"i", "d">>, "INT4"),
      Column(<<"n", "a", "m", "e">>, "VARCHAR"),
      Column(<<"j", "o", "i", "n", "e", "d">>, "DATE"),
      Column(<<"i", "d">>, "VARCHAR") }

\* A query selects up to MaxCols different columns of the pool, in any order.
PoolSchemas ==
    UNION { { s \in [1..n -> ColumnPool] : \A i, j \in 1..n : i # j => s[i] # s[j] } :
            n \in 1..MaxCols }

Schemas == KindSchemas \cup PoolSchemas

\* A row of the result set: the column metadata it carries and its values.
Row(db, sch, variant) ==
    [cols |-> sch,
     vals |-> [c \in 1..Len(sch) |-> SampleValue(ColumnInto(db, sch[c]).kind, variant)]]

\* The row variants of a schema: the wide one where a column is DECIMAL.
VariantsOf(db, sch) ==
    IF \E c \in 1..Len(sch) : ColumnInto(db, sch[c]).kind.tag = "DECIMAL"
    THEN RowVariants \cup {4} ELSE RowVariants

ResultSets(db, sch) ==
    UNION { { [i \in 1..n |-> Row(db, sch, vs[i])] : vs \in [1..n -> VariantsOf(db, sch)] } :
            n \in 0..MaxRows }

\* ------------------------------------------------------ destination
AbsentFile == [kind |-> "absent"]
TextFile(text) == [kind |-> "text", text |-> text]
XlsxFile(sheet) == [kind |-> "xlsx", sheet |-> sheet]

\* The worksheet: the positioned writes in the order made, and its settings.
NoSheet == [writes |-> <<>>, freeze |-> <<>>, autofilter |-> <<>>, autofit |-> FALSE]

\* A panic: the phase it happened in, the 1-based column, the message.
NoPanic == [where |-> "", col |-> 0, msg |-> ""]
PanicAt(where, col, msg) == [where |-> where, col |-> col, msg |-> msg]

Init ==
    /\ backend \in Backends
    /\ schema \in Schemas
    /\ result \in ResultSets(backend, schema)
    /\ writer = "none"
    /\ pc = "start"
    /\ columns = <<>>
    /\ convs = <<>>
    /\ rowsDone = 0
    /\ body = <<>>
    /\ cells = <<>>
    /\ ws = NoSheet
    /\ file = AbsentFile
    /\ ordered = FALSE
    /\ panicMsg = NoPanic
    /\ narrow = FALSE
    /\ mainPc = "lib"
    /\ scheme = ""
    /\ output = ""
    /\ trail = <<>>

\* ------------------------------------------------- shared by writers
\* result[0].columns().iter().map(|c| c.into()).collect()
DeriveColumns(db, res) == [c \in 1..Len(res[1].cols) |-> ColumnInto(db, res[1].cols[c])]

\* An iterator of fallible calls collected in order: the values up to the
\* first call that panics.  at is the index of that call, 0 when none panics.
\* Variant that loses the value of the last call.
UpToPanic_drops_last(got) ==
    LET bad == {c \in 1..Len(got) : got[c].panic}
        at == IF bad = {} THEN 0 ELSE CHOOSE c \in bad : \A d \in bad : c <= d
        n == IF at = 0 THEN Len(got) - 1 ELSE at - 1
    IN  [at |-> at,
         vals |-> [c \in 1..n |-> got[c].val],
         msg |-> IF at = 0 THEN "" ELSE got[at].msg]

UpToPanic(got) ==
    LET bad == {c \in 1..Len(got) : got[c].panic}
        at == IF bad = {} THEN 0 ELSE CHOOSE c \in bad : \A d \in bad : c <= d
        n == IF at = 0 THEN Len(got) ELSE at - 1
    IN  [at |-> at,
         vals |-> [c \in 1..n |-> got[c].val],
         msg |-> IF at = 0 THEN "" ELSE got[at].msg]

Max(a, b) == IF a >= b THEN a ELSE b
Min2(a, b) == IF a <= b THEN a ELSE b

\* ------------------------------------------------------- GFM::write
\* The fold that sizes the columns: the header's len(), then the maximum with
\* each row's cell len().
RECURSIVE FoldLens(_, _)
FoldLens(acc, rows) ==
    IF rows = <<>> THEN acc
    ELSE FoldLens([c \in 1..Len(acc) |->
                      IF c <= Len(Head(rows)) THEN Max(ByteLen(Head(rows)[c]), acc[c])
                      ELSE acc[c]],
                  Tail(rows))

\* format!("{fld:<len$}"): spaces appended up to len characters.
PadRight(fld, len) == fld \o Repeat(" ", len - CharCount(fld))

\* writeln!(jf, "|{}|", cells.map(|fld| format!(" {fld:<len$} ")).join("|"))
GfmLine(row, lens) ==
    <<"|">>
    \o Join([c \in 1..Min2(Len(row), Len(lens)) |->
                <<" ">> \o PadRight(row[c], lens[c]) \o <<" ">>], <<"|">>)
    \o <<"|", NewLine>>

RECURSIVE GfmLines(_, _)
GfmLines(rows, lens) ==
    IF rows = <<>> THEN <<>> ELSE GfmLine(Head(rows), lens) \o GfmLines(Tail(rows), lens)

\* body after body.insert(0, head) and body.insert(1, dashes).
GfmTable(head, lens, rendered) ==
    <<head, [c \in 1..Len(lens) |-> Repeat("-", lens[c])]>> \o rendered

\* if !result.is_empty(): derive the columns and select the renderers.
GfmWrite_Convert ==
    /\ pc = "start"
    /\ writer' = "gfm"
    /\ IF result = <<>>
       THEN /\ pc' = "done"
            /\ UNCHANGED <<columns, convs, panicMsg>>
       ELSE LET flds == DeriveColumns(backend, result)
                sel == UpToPanic([c \in 1..Len(flds) |-> GfmConvert(flds[c])])
            IN  /\ columns' = flds
                /\ convs' = sel.vals
                /\ pc' = IF sel.at = 0 THEN "gfm_body" ELSE "panic"
                /\ panicMsg' = IF sel.at = 0 THEN NoPanic
                               ELSE PanicAt("convert", sel.at, sel.msg)
    /\ UNCHANGED <<backend, schema, result, rowsDone, body, cells, ws, file, ordered>>
    /\ UNCHANGED <<narrow, mainVars>>

\* body: every row rendered, in row order, before anything is written.
\* Variant that creates the destination and writes each row as it is rendered.
GfmWrite_Body_streaming ==
    /\ pc = "gfm_body"
    /\ LET rendered == [r \in 1..Len(result) |->
                           UpToPanic([c \in 1..Len(convs) |-> GfmCall(convs[c], c, result[r])])]
           bad == {r \in 1..Len(result) : rendered[r].at # 0}
           at == IF bad = {} THEN 0 ELSE CHOOSE r \in bad : \A q \in bad : r <= q
           n == IF at = 0 THEN Len(result) ELSE at - 1
       IN  /\ body' = [r \in 1..n |-> rendered[r].vals]
           /\ cells' = [r \in 1..n |-> rendered[r].vals]
           /\ file' = TextFile(Join([r \in 1..n |-> Join(rendered[r].vals, <<"|">>)],
                                    <<NewLine>>))
           /\ rowsDone' = n
           /\ pc' = IF at = 0 THEN "gfm_save" ELSE "panic"
           /\ panicMsg' = IF at = 0 THEN NoPanic
                          ELSE PanicAt("render", rendered[at].at, rendered[at].msg)
    /\ UNCHANGED <<backend, schema, result, writer, columns, convs, ws, ordered>>
    /\ UNCHANGED <<narrow, mainVars>>

GfmWrite_Body ==
    /\ pc = "gfm_body"
    /\ LET rendered == [r \in 1..Len(result) |->
                           UpToPanic([c \in 1..Len(convs) |-> GfmCall(convs[c], c, result[r])])]
           bad == {r \in 1..Len(result) : rendered[r].at # 0}
           at == IF bad = {} THEN 0 ELSE CHOOSE r \in bad : \A q \in bad : r <= q
           n == IF at = 0 THEN Len(result) ELSE at - 1
       IN  /\ body' = [r \in 1..n |-> rendered[r].vals]
           /\ cells' = [r \in 1..n |-> rendered[r].vals]
           /\ rowsDone' = n
           /\ pc' = IF at = 0 THEN "gfm_save" ELSE "panic"
           /\ panicMsg' = IF at = 0 THEN NoPanic
                          ELSE PanicAt("render", rendered[at].at, rendered[at].msg)
    /\ UNCHANGED <<backend, schema, result, writer, columns, convs, ws, file, ordered>>
    /\ UNCHANGED <<narrow, mainVars>>

\* lens, File::create(output), body.insert(0, head), body.insert(1, dashes),
\* and every row of body written as a line.
GfmWrite_Save ==
    /\ pc = "gfm_save"
    /\ LET head == [c \in 1..Len(columns) |-> columns[c].name]
           lens == FoldLens([c \in 1..Len(head) |-> ByteLen(head[c])], body)
           table == GfmTable(head, lens, body)
       IN  /\ body' = table
           /\ file' = TextFile(GfmLines(table, lens))
    /\ pc' = "done"
    /\ UNCHANGED <<backend, schema, result, writer, columns, convs, rowsDone, cells, ws,
                   ordered, panicMsg>>
    /\ UNCHANGED <<narrow, mainVars>>


\* ------------------------------------------------------ JSON::write
\* The smallest key of a non-empty set, in String order.
MinKey(keys) == CHOOSE k \in keys : \A l \in keys : l = k \/ StrLess(k, l)

RECURSIVE SortKeys(_)
SortKeys(keys) ==
    IF keys = {} THEN <<>>
    ELSE <<MinKey(keys)>> \o SortKeys(keys \ {MinKey(keys)})

\* The keys of the pairs in the order of their first occurrence.
RECURSIVE FirstKeys(_, _)
FirstKeys(pairs, seen) ==
    IF pairs = <<>> THEN <<>>
    ELSE IF Head(pairs).k \in seen THEN FirstKeys(Tail(pairs), seen)
         ELSE <<Head(pairs).k>> \o FirstKeys(Tail(pairs), seen \cup {Head(pairs).k})

\* The value a key ends with: the one inserted last.
\* Variant that keeps the value inserted first.
LastValue_keeps_first(pairs, k) ==
    pairs[CHOOSE i \in 1..Len(pairs) :
            /\ pairs[i].k = k
            /\ \A j \in 1..(i - 1) : pairs[j].k # k].v

LastValue(pairs, k) ==
    pairs[CHOOSE i \in 1..Len(pairs) :
            /\ pairs[i].k = k
            /\ \A j \in (i + 1)..Len(pairs) : pairs[j].k # k].v

\* JsonMap::from_iter(ji): serde_json's Map is a BTreeMap, iterated in key
\* order, or with the preserve_order feature an IndexMap, iterated in the
\* order of first insertion.  Either way a repeated key keeps one entry,
\* holding the last value.
MapFromIter(pairs, keepOrder) ==
    LET keys == IF keepOrder THEN FirstKeys(pairs, {})
                ELSE SortKeys({pairs[i].k : i \in 1..Len(pairs)})
    IN  JObject([i \in 1..Len(keys) |-> [k |-> keys[i], v |-> LastValue(pairs, keys[i])]])

\* The pairs (columns[c].name.clone(), conv(c, rw)) of one rendered row.
RowPairs(flds, ji) == [c \in 1..Len(ji) |-> [k |-> flds[c].name, v |-> ji[c]]]

\* writeln!(jf, "[") and writeln!(jf, "]").
\* Variant that writes nothing when the file is created.
OpenArray_deferred == <<>>
OpenArray == <<"[", NewLine>>
\* Variant that leaves the array open.
CloseArray_missing == <<>>
CloseArray == <<"]", NewLine>>

\* File::create(output) and writeln!(jf, "[").
JsonWrite_Create ==
    /\ pc = "start"
    /\ writer' = "json"
    /\ \E keepOrder \in BOOLEAN : ordered' = keepOrder
    /\ file' = TextFile(OpenArray)
    /\ pc' = "json_convert"
    /\ UNCHANGED <<backend, schema, result, columns, convs, rowsDone, body, cells, ws,
                   panicMsg>>
    /\ \E via64 \in BOOLEAN : narrow' = via64
    /\ UNCHANGED mainVars

\* if !result.is_empty(): derive the columns and select the renderers.
JsonWrite_Convert ==
    /\ pc = "json_convert"
    /\ IF result = <<>>
       THEN /\ pc' = "json_rows"
            /\ UNCHANGED <<columns, convs, panicMsg>>
       ELSE LET flds == DeriveColumns(backend, result)
                sel == UpToPanic([c \in 1..Len(flds) |-> JsonConvert(flds[c])])
            IN  /\ columns' = flds
                /\ convs' = sel.vals
                /\ pc' = IF sel.at = 0 THEN "json_rows" ELSE "panic"
                /\ panicMsg' = IF sel.at = 0 THEN NoPanic
                               ELSE PanicAt("convert", sel.at, sel.msg)
    /\ UNCHANGED <<backend, schema, result, writer, rowsDone, body, cells, ws, file,
                   ordered>>
    /\ UNCHANGED <<narrow, mainVars>>

\* One turn of for rw in result.iter(): the row's map, to_writer, writeln!(jf, ",").
JsonWrite_Row ==
    /\ pc = "json_rows"
    /\ rowsDone < Len(result)
    /\ LET rw == result[rowsDone + 1]
           rendered == UpToPanic([c \in 1..Len(convs) |-> JsonCall(convs[c], c, rw)])
           jr == MapFromIter(RowPairs(columns, rendered.vals), ordered)
       IN  IF rendered.at # 0
           THEN /\ pc' = "panic"
                /\ panicMsg' = PanicAt("render", rendered.at, rendered.msg)
                /\ UNCHANGED <<file, rowsDone, cells>>
           ELSE /\ file' = TextFile(file.text \o JsonText(jr) \o <<",", NewLine>>)
                /\ cells' = Append(cells, rendered.vals)
                /\ rowsDone' = rowsDone + 1
                /\ UNCHANGED <<pc, panicMsg>>
    /\ UNCHANGED <<backend, schema, result, writer, columns, convs, body, ws, ordered>>
    /\ UNCHANGED <<narrow, mainVars>>

\* writeln!(jf, "]") and Ok(()).
JsonWrite_Close ==
    /\ pc = "json_rows"
    /\ rowsDone = Len(result)
    /\ file' = TextFile(file.text \o CloseArray)
    /\ pc' = "done"
    /\ UNCHANGED <<backend, schema, result, writer, columns, convs, rowsDone, body, cells,
                   ws, ordered, panicMsg>>
    /\ UNCHANGED <<narrow, mainVars>>

\* ------------------------------------------------------ XLSX::write
\* The header cell of 0-based column c: write_with_format(0, c, &fld.name, Bold).
\* Variant of the header cell written one column to the right.
HeaderWrite_shifted(flds, c) == CellWrite(0, c + 1, XString(flds[c + 1].name), "Bold")
HeaderWrite(flds, c) == CellWrite(0, c, XString(flds[c + 1].name), "Bold")

\* Workbook::new(), add_worksheet(), set_freeze_panes(1, 0).
XlsxWrite_New ==
    /\ pc = "start"
    /\ writer' = "xlsx"
    /\ ws' = [NoSheet EXCEPT !.freeze = <<1, 0>>]
    /\ pc' = "xlsx_convert"
    /\ UNCHANGED <<backend, schema, result, columns, convs, rowsDone, body, cells, file,
                   ordered, panicMsg>>
    /\ \E via64 \in BOOLEAN : narrow' = via64
    /\ UNCHANGED mainVars

\* if !result.is_empty(): per column, in order, the header cell is written
\* (inspect) and then the renderer is selected (map).
XlsxWrite_Convert ==
    /\ pc = "xlsx_convert"
    /\ IF result = <<>>
       THEN /\ pc' = "done"
            /\ UNCHANGED <<columns, convs, ws, panicMsg>>
       ELSE LET flds == DeriveColumns(backend, result)
                sel == UpToPanic([c \in 1..Len(flds) |-> XlsxConvert(flds[c])])
                heads == IF sel.at = 0 THEN Len(flds) ELSE sel.at
            IN  /\ columns' = flds
                /\ convs' = sel.vals
                /\ ws' = [ws EXCEPT !.writes = [c \in 1..heads |-> HeaderWrite(flds, c - 1)]]
                /\ pc' = IF sel.at = 0 THEN "xlsx_rows" ELSE "panic"
                /\ panicMsg' = IF sel.at = 0 THEN NoPanic
                               ELSE PanicAt("convert", sel.at, sel.msg)
    /\ UNCHANGED <<backend, schema, result, writer, rowsDone, body, cells, file, ordered>>
    /\ UNCHANGED <<narrow, mainVars>>

\* The writes of one row: conv((r + 1), c, ws, rw, &xf) for each column c, up
\* to the first renderer that panics.
RECURSIVE Flatten(_)
Flatten(parts) == IF parts = <<>> THEN <<>> ELSE Head(parts) \o Flatten(Tail(parts))

\* One turn of for (r, rw) in result.iter().enumerate().
XlsxWrite_Row ==
    /\ pc = "xlsx_rows"
    /\ rowsDone < Len(result)
    /\ LET r == rowsDone
           rw == result[r + 1]
           rendered == UpToPanic([c \in 1..Len(convs) |-> XlsxCall(convs[c], r + 1, c - 1, rw)])
       IN  /\ ws' = [ws EXCEPT !.writes = @ \o Flatten(rendered.vals)]
           /\ IF rendered.at # 0
              THEN /\ pc' = "panic"
                   /\ panicMsg' = PanicAt("render", rendered.at, rendered.msg)
                   /\ UNCHANGED <<rowsDone, cells>>
              ELSE /\ rowsDone' = rowsDone + 1
                   /\ cells' = Append(cells, rendered.vals)
                   /\ UNCHANGED <<pc, panicMsg>>
    /\ UNCHANGED <<backend, schema, result, writer, columns, convs, body, file, ordered>>
    /\ UNCHANGED <<narrow, mainVars>>

\* ws.autofilter(0, 0, result.len() - 1, columns.len() - 1), ws.autofit(),
\* wb.save(output) and Ok(()).
XlsxWrite_Save ==
    /\ pc = "xlsx_rows"
    /\ rowsDone = Len(result)
    /\ LET saved == [ws EXCEPT !.autofilter = <<0, 0, Len(result) - 1, Len(columns) - 1>>,
                               !.autofit = TRUE]
       IN  /\ ws' = saved
           /\ file' = XlsxFile(saved)
    /\ pc' = "done"
    /\ UNCHANGED <<backend, schema, result, writer, columns, convs, rowsDone, body, cells,
                   ordered, panicMsg>>
    /\ UNCHANGED <<narrow, mainVars>>

\* ---------------------------------------------------- specification
Next ==
    \/ GfmWrite_Convert
    \/ GfmWrite_Body
    \/ GfmWrite_Save
    \/ JsonWrite_Create
    \/ JsonWrite_Convert
    \/ JsonWrite_Row
    \/ JsonWrite_Close
    \/ XlsxWrite_New
    \/ XlsxWrite_Convert
    \/ XlsxWrite_Row
    \/ XlsxWrite_Save

Spec == Init /\ [][Next]_vars

\* ------------------------------------------------------------- main
\* The scheme of the database URL: the two that main matches and one it does not.
Schemes == {"postgres", "mysql", "sqlite"}

\* args.output by its extension: a spreadsheet name and a name of no format.
Outputs == {"xlsx", "dat"}

\* The queries main is run with: those of the column pool, and one column of
\* a decimal, a timestamp and an unclassified type.
MainSchemas ==
    PoolSchemas \cup {sch \in KindSchemas : sch[1].type \in {"NUMERIC", "TIMESTAMP", "UUID"}}

\* The Database type of the connection each arm of the match opens.
DriverOf(sch) == IF sch = "postgres" THEN "Postgres" ELSE "MySQL"

\* What main has done, in order.
Did(op) == [op |-> op]
Created(over) == [op |-> "create", over |-> over]

\* The panic of unwrap() on the Err of fetch_all.
QueryPanic == PanicAt("fetch", 0, "called Result::unwrap() on an Err value")

MainInit ==
    /\ scheme \in Schemes
    /\ output \in Outputs
    /\ schema \in MainSchemas
    /\ backend = ""
    /\ result = <<>>
    /\ writer = "none"
    /\ pc = "start"
    /\ columns = <<>>
    /\ convs = <<>>
    /\ rowsDone = 0
    /\ body = <<>>
    /\ cells = <<>>
    /\ ws = NoSheet
    /\ file = AbsentFile
    /\ ordered = FALSE
    /\ panicMsg = NoPanic
    /\ narrow = FALSE
    /\ mainPc = "main"
    /\ trail = <<>>

\* match db_url.scheme(): one of the two arms, or panic!("Unknown driver {scheme}").
Main_Match ==
    /\ mainPc = "main"
    /\ IF scheme \in {"postgres", "mysql"}
       THEN /\ mainPc' = "connect"
            /\ backend' = DriverOf(scheme)
            /\ UNCHANGED panicMsg
       ELSE /\ mainPc' = "panic"
            /\ panicMsg' = PanicAt("main", 0, "Unknown driver")
            /\ UNCHANGED backend
    /\ UNCHANGED <<schema, result, writer, pc, columns, convs, rowsDone, body, cells, ws,
                   file, ordered, narrow, scheme, output, trail>>

\* Connection::connect(db_url.as_str()).await?: the connection, or main returns
\* the error.
Main_Connect ==
    /\ mainPc = "connect"
    /\ trail' = Append(trail, Did("connect"))
    /\ \E connected \in BOOLEAN : mainPc' = IF connected THEN "to_xlsx" ELSE "error"
    /\ UNCHANGED <<backend, schema, result, writer, pc, columns, convs, rowsDone, body,
                   cells, ws, file, ordered, panicMsg, narrow, scheme, output>>

\* to_xlsx up to the query: Workbook::new(), add_worksheet(), set_freeze_panes(1, 0).
ToXlsx_New ==
    /\ mainPc = "to_xlsx"
    /\ pc = "start"
    /\ writer' = "xlsx"
    /\ ws' = [NoSheet EXCEPT !.freeze = <<1, 0>>]
    /\ \E via64 \in BOOLEAN : narrow' = via64
    /\ pc' = "xlsx_fetch"
    /\ UNCHANGED <<backend, schema, result, columns, convs, rowsDone, body, cells, file,
                   ordered, panicMsg, mainVars>>

\* to_xlsx: sqlx::query(sql).fetch_all(db).await.unwrap().
ToXlsx_Fetch ==
    /\ pc = "xlsx_fetch"
    /\ trail' = Append(trail, Did("fetch"))
    /\ \/ /\ \E rows \in ResultSets(backend, schema) : result' = rows
          /\ pc' = "xlsx_convert"
          /\ UNCHANGED panicMsg
       \/ /\ pc' = "panic"
          /\ panicMsg' = QueryPanic
          /\ UNCHANGED result
    /\ UNCHANGED <<backend, schema, writer, columns, convs, rowsDone, body, cells, ws, file,
                   ordered, narrow, mainPc, scheme, output>>

\* to_xlsx has returned Ok and to_json begins: File::create(output) and
\* writeln!(jf, "[").  The locals of to_xlsx are gone.
ToJson_Create ==
    /\ mainPc = "to_xlsx"
    /\ pc = "done"
    /\ mainPc' = "to_json"
    /\ writer' = "json"
    /\ \E keepOrder \in BOOLEAN : ordered' = keepOrder
    /\ trail' = Append(trail, Created(file.kind))
    /\ file' = TextFile(OpenArray)
    /\ result' = <<>>
    /\ columns' = <<>>
    /\ convs' = <<>>
    /\ rowsDone' = 0
    /\ cells' = <<>>
    /\ ws' = NoSheet
    /\ pc' = "json_fetch"
    /\ UNCHANGED <<backend, schema, body, panicMsg, narrow, scheme, output>>

\* to_json: sqlx::query(sql).fetch_all(db).await.unwrap().
ToJson_Fetch ==
    /\ pc = "json_fetch"
    /\ trail' = Append(trail, Did("fetch"))
    /\ \/ /\ \E rows \in ResultSets(backend, schema) : result' = rows
          /\ pc' = "json_convert"
          /\ UNCHANGED panicMsg
       \/ /\ pc' = "panic"
          /\ panicMsg' = QueryPanic
          /\ UNCHANGED result
    /\ UNCHANGED <<backend, schema, writer, columns, convs, rowsDone, body, cells, ws, file,
                   ordered, narrow, mainPc, scheme, output>>

\* to_json has returned Ok: main returns Ok(()).
\* Variant in which main returns once to_xlsx has returned Ok.
Main_Exit_after_xlsx ==
    /\ mainPc = "to_xlsx"
    /\ pc = "done"
    /\ mainPc' = "exit"
    /\ UNCHANGED <<backend, schema, result, writer, pc, columns, convs, rowsDone, body,
                   cells, ws, file, ordered, panicMsg, narrow, scheme, output, trail>>

Main_Exit ==
    /\ mainPc = "to_json"
    /\ pc = "done"
    /\ mainPc' = "exit"
    /\ UNCHANGED <<backend, schema, result, writer, pc, columns, convs, rowsDone, body,
                   cells, ws, file, ordered, panicMsg, narrow, scheme, output, trail>>

\* The rest of to_xlsx and to_json is the code of the writers.
MainNext ==
    \/ Main_Match
    \/ Main_Connect
    \/ ToXlsx_New
    \/ ToXlsx_Fetch
    \/ XlsxWrite_Convert
    \/ XlsxWrite_Row
    \/ XlsxWrite_Save
    \/ ToJson_Create
    \/ ToJson_Fetch
    \/ JsonWrite_Convert
    \/ JsonWrite_Row
    \/ JsonWrite_Close
    \/ Main_Exit

MainSpec == MainInit /\ [][MainNext]_vars


\* ------------------------------------------------------------ claims
\* Helpers shared by the properties below.
Finished == pc = "done"
Crashed == pc = "panic"
TypeOf(c) == to_lowercase(schema[c].type)
ColumnsOfType(ty) == {c \in 1..Len(columns) : TypeOf(c) = ty}

\* C1: a column whose type name is "timestamp" is classified as a date-time
\* without zone when the backend is PostgreSQL and as a date-time with zone
\* when the backend is MySQL; the same name gives two different kinds, and
\* neither is what the shared lookup table alone gives for that name.
C1_TimestampByBackend ==
    \A c \in ColumnsOfType("timestamp") :
        /\ backend = "Postgres" => columns[c].kind = Kind("DATETIME")
        /\ backend = "MySQL" => columns[c].kind = Kind("DATETIMETZ")
        /\ ColumnInto("Postgres", schema[c]).kind # ColumnInto("MySQL", schema[c]).kind
        /\ columns[c].kind # get_common_type("timestamp")

\* C1 witness: a PostgreSQL export has classified a "timestamp" column and
\* rendered its rows with the zoneless date-time renderer.
C1_Witness ==
    /\ backend = "Postgres"
    /\ Finished
    /\ \E c \in ColumnsOfType("timestamp") :
          /\ columns[c].kind = Kind("DATETIME")
          /\ ColumnInto("MySQL", schema[c]).kind = Kind("DATETIMETZ")

\* The spellings the shared lookup table lists.
TableSpellings ==
    {"string", "varchar", "tinytext", "text", "mediumtext", "longtext", "char", "bpchar",
     "tinyint", "int2", "smallint", "int4", "int", "mediumint", "int8", "bigint",
     "tinyint unsigned", "smallint unsigned", "int unsigned", "mediumint unsigned",
     "bigint unsigned", "float4", "float", "float8", "double", "decimal", "numeric",
     "json", "jsonb", "bool", "boolean", "date", "time", "datetime", "timestamptz"}

KindTags ==
    {"INT8", "INT16", "INT32", "INT64", "UINT8", "UINT16", "UINT32", "UINT64",
     "FLOAT32", "FLOAT64", "STR", "BOOL", "DECIMAL", "DATE", "TIME", "DATETIME",
     "DATETIMETZ", "JSON", "UNKNOWN"}

\* C2: classification never fails: every column gets a kind; a type name
\* that is neither "timestamp" nor a table spelling gets Unknown carrying
\* that (lower-cased) name, and a listed spelling never gets Unknown.
C2_ClassifierTotal ==
    /\ columns # <<>> => Len(columns) = Len(schema)
    /\ \A c \in 1..Len(columns) :
          /\ columns[c].name = schema[c].name
          /\ columns[c].kind.tag \in KindTags
          /\ TypeOf(c) \notin TableSpellings \cup {"timestamp"}
                => columns[c].kind = [tag |-> "UNKNOWN", name |-> TypeOf(c)]
          /\ TypeOf(c) \in TableSpellings \cup {"timestamp"}
                => columns[c].kind.tag # "UNKNOWN"

\* C2 witness: a column of type INTERVAL was classified as Unknown("interval").
C2_Witness ==
    \E c \in 1..Len(columns) :
        /\ schema[c].type = "INTERVAL"
        /\ columns[c].kind = [tag |-> "UNKNOWN", name |-> "interval"]

\* C3: when a column's kind is Unknown the export does not crash at that
\* column: in every output format renderer selection gets past it, so the
\* export can go on to render the other columns.
C3_UnknownColumnDegrades ==
    \A c \in 1..Len(columns) :
        columns[c].kind.tag = "UNKNOWN"
            => ~(Crashed /\ panicMsg.where = "convert" /\ panicMsg.col = c)

\* The outcome of selecting a renderer for a column, in the running format.
SelectionOutcome(field) ==
    CASE writer = "gfm" -> GfmConvert(field)
      [] writer = "json" -> JsonConvert(field)
      [] writer = "xlsx" -> XlsxConvert(field)
      [] OTHER -> TodoPanic

UnsignedSpellings ==
    [UINT8 |-> {"tinyint unsigned"}, UINT16 |-> {"smallint unsigned"},
     UINT32 |-> {"int unsigned", "mediumint unsigned"}, UINT64 |-> {"bigint unsigned"}]

\* C4: the unsigned type names are classified into the four unsigned kinds;
\* selecting a renderer for such a column is fatal in every format, and that
\* outcome differs from the outcome of selecting one for an Unknown column.
C4_UnsignedFatalAndDistinct ==
    \A c \in 1..Len(columns) :
        /\ \A k \in DOMAIN UnsignedSpellings :
              TypeOf(c) \in UnsignedSpellings[k] => columns[c].kind = Kind(k)
        /\ columns[c].kind.tag \in UnsignedKinds
              => /\ SelectionOutcome(columns[c]).panic
                 /\ pc \notin {"start", "json_convert", "xlsx_convert"}
                       => Crashed /\ panicMsg.where = "convert"
                 /\ SelectionOutcome(columns[c])
                       # SelectionOutcome(Field(columns[c].name, UNKNOWN("interval")))

\* C5: a null value in a temporal column is rendered as an omitted cell by
\* the text-table and spreadsheet writers and as JSON null by the
\* structured-document writer; never as a placeholder date.
C5_NullTemporalOmitted ==
    \A r \in 1..Len(cells) : \A c \in 1..Len(cells[r]) :
        (columns[c].kind.tag \in TemporalKinds /\ result[r].vals[c] = SqlNull)
            => CASE writer = "gfm" -> cells[r][c] = <<>>
                 [] writer = "json" -> cells[r][c] = JNull
                 [] writer = "xlsx" -> cells[r][c] = <<>>
                 [] OTHER -> FALSE

\* ---------------------------------------------- reading the outputs
\* A text cut at every occurrence of a separator character.
SplitOn(text, sep) ==
    LET seps == {i \in 1..Len(text) : text[i] = sep}
        n == Cardinality(seps)
        Cut(k) == IF k = 0 THEN 0
                  ELSE IF k > n THEN Len(text) + 1
                  ELSE CHOOSE i \in seps : Cardinality({j \in seps : j <= i}) = k
    IN  [k \in 1..(n + 1) |-> SubSeq(text, Cut(k - 1) + 1, Cut(k) - 1)]

\* The lines of the text file written, without their line ends.
FileLines ==
    IF file.kind # "text" THEN <<>>
    ELSE LET parts == SplitOn(file.text, NewLine) IN SubSeq(parts, 1, Len(parts) - 1)

\* The cells of a text-table line, between the bars, without the space each
\* side of a cell carries.
TableCells(line) ==
    LET parts == SplitOn(line, "|")
    IN  [c \in 1..(Len(parts) - 2) |-> SubSeq(parts[c + 1], 2, Len(parts[c + 1]) - 1)]

RECURSIVE TrimRight(_)
TrimRight(s) ==
    IF s # <<>> /\ s[Len(s)] = " " THEN TrimRight(SubSeq(s, 1, Len(s) - 1)) ELSE s

\* The column names of the result set, in column order.
Names == [c \in 1..Len(schema) |-> schema[c].name]

\* The names in the header line of the text table written, if any.
GfmHeaderNames ==
    IF FileLines = <<>> THEN <<>>
    ELSE [c \in 1..Len(TableCells(FileLines[1])) |-> TrimRight(TableCells(FileLines[1])[c])]

\* The header cells of the saved workbook: the texts written to row 0 in the
\* order made, each required to sit in the next column.
SavedWrites == IF file.kind = "xlsx" THEN file.sheet.writes ELSE <<>>
InHeaderRow(w) == w.row = 0
HeaderCells == SelectSeq(SavedWrites, InHeaderRow)
XlsxHeaderNames == [i \in 1..Len(HeaderCells) |-> HeaderCells[i].data.s]
XlsxHeaderInPlace == \A i \in 1..Len(HeaderCells) : HeaderCells[i].col = i - 1

\* An object as serde_json prints it from keys and values.
ObjectText(keys, vals) ==
    <<"{">>
    \o Join([i \in 1..Len(keys) |-> JsonQuote(keys[i]) \o <<":">> \o JsonText(vals[i])],
            <<",">>)
    \o <<"}">>

\* The value a row's object holds under a name: that of the last column so named.
LastCell(r, name) ==
    cells[r][CHOOSE c \in 1..Len(Names) :
                /\ Names[c] = name
                /\ \A d \in (c + 1)..Len(Names) : Names[d] # name]

\* The orderings without repetition of a set of names.
Orderings(S) ==
    {ks \in [1..Cardinality(S) -> S] : \A i, j \in 1..Cardinality(S) : i # j => ks[i] # ks[j]}

FirstAt(name) == CHOOSE c \in 1..Len(Names) :
                    Names[c] = name /\ \A d \in 1..(c - 1) : Names[d] # name

\* The order serde_json's Map gives the keys: that of first insertion when it
\* preserves order, sorted otherwise.
MapOrder(ks) ==
    \A i, j \in 1..Len(ks) :
        i < j => IF ordered THEN FirstAt(ks[i]) < FirstAt(ks[j]) ELSE StrLess(ks[i], ks[j])

C7_EmptyResultOutputs ==
    result = <<>> =>
        /\ ~Crashed
        /\ Finished =>
             CASE writer = "json" -> file = TextFile(<<"[", NewLine, "]", NewLine>>)
               [] writer = "gfm" -> file = AbsentFile \/ file = TextFile(<<>>)
               [] writer = "xlsx" ->
                    /\ file.kind = "xlsx"
                    /\ \A i \in 1..Len(file.sheet.writes) : file.sheet.writes[i].row = 0
               [] OTHER -> FALSE

\* C7 amended: a zero-row export succeeds; the JSON writer writes the opening
\* delimiter immediately followed by the closing one, the text-table writer
\* writes no content, and the spreadsheet writer saves nothing: no workbook
\* is produced and the destination is left as it was.
C7_EmptyResultNothingSaved ==
    result = <<>> =>
        /\ ~Crashed
        /\ columns = <<>> /\ cells = <<>>
        /\ Finished =>
             CASE writer = "json" -> file = TextFile(<<"[", NewLine, "]", NewLine>>)
               [] writer = "gfm" -> file = AbsentFile
               [] writer = "xlsx" -> file = AbsentFile /\ ws.writes = <<>>
               [] OTHER -> FALSE

\* C7 witness: a spreadsheet export of a zero-row result set has returned.
C7_Witness == result = <<>> /\ Finished /\ writer = "xlsx"

\* The length of a text in characters or in bytes.
Measured(measure, s) == IF measure = "chars" THEN CharCount(s) ELSE ByteLen(s)

\* The width of column c of the table under a measure of length: the longest
\* of its header name and its rendered cells.
WidthOf(measure, c) ==
    LET lengths == {Measured(measure, Names[c])}
                   \cup {Measured(measure, cells[r][c]) : r \in 1..Len(cells)}
    IN  CHOOSE w \in lengths : \A l \in lengths : l <= w

\* The text table written is laid out on the widths taken under a measure: a
\* line per header, separator and row; in the separator W dashes per column;
\* in every other line the name or cell followed by spaces only, W long.
LaidOutUnder(measure) ==
    /\ Len(FileLines) = Len(result) + 2
    /\ \A i \in 1..Len(FileLines) : Len(TableCells(FileLines[i])) = Len(Names)
    /\ \A c \in 1..Len(Names) :
          LET W == WidthOf(measure, c)
          IN  /\ TableCells(FileLines[2])[c] = Repeat("-", W)
              /\ \A i \in (1..Len(FileLines)) \ {2} :
                    LET padded == TableCells(FileLines[i])[c]
                        content == IF i = 1 THEN Names[c] ELSE cells[i - 2][c]
                    IN  /\ Measured(measure, padded) = W
                        /\ Len(padded) >= Len(content)
                        /\ padded = content \o Repeat(" ", Len(padded) - Len(content))

\* C8: in the text table every column has one width W, the longest of the
\* header name's length and the rendered cells' lengths; the separator line
\* holds W dashes for the column and the header cell and every data cell are
\* padded with trailing spaces to exactly W.  Length is taken in characters,
\* or else in bytes, but in one measure throughout.
C8_ColumnWidths ==
    (Finished /\ writer = "gfm" /\ result # <<>>)
        => (LaidOutUnder("chars") \/ LaidOutUnder("bytes"))

\* The sampled values with the text-table cell and the JSON text each is to give.
Samples ==
    <<
       [v |-> IntValue(7),
        text |-> <<"7">>,
        json |-> <<"7">>],
       [v |-> IntValue(-128),
        text |-> <<"-", "1", "2", "8">>,
        json |-> <<"-", "1", "2", "8">>],
       [v |-> IntValue(300),
        text |-> <<"3", "0", "0">>,
        json |-> <<"3", "0", "0">>],
       [v |-> IntValue(-5),
        text |-> <<"-", "5">>,
        json |-> <<"-", "5">>],
       [v |-> IntValue(1),
        text |-> <<"1">>,
        json |-> <<"1">>],
       [v |-> IntValue(42),
        text |-> <<"4", "2">>,
        json |-> <<"4", "2">>],
       [v |-> IntValue(1234567890),
        text |-> <<"1", "2", "3", "4", "5", "6", "7", "8", "9", "0">>,
        json |-> <<"1", "2", "3", "4", "5", "6", "7", "8", "9", "0">>],
       [v |-> IntValue(-9),
        text |-> <<"-", "9">>,
        json |-> <<"-", "9">>],
       [v |-> FloatValue(2, 0),
        text |-> <<"2">>,
        json |-> <<"2", ".", "0">>],
       [v |-> FloatValue(-15, 1),
        text |-> <<"-", "1", ".", "5">>,
        json |-> <<"-", "1", ".", "5">>],
       [v |-> NaN,
        text |-> <<"N", "a", "N">>,
        json |-> <<"n", "u", "l", "l">>],
       [v |-> StrValue(<<"A", "n", "n">>),
        text |-> <<"A", "n", "n">>,
        json |-> <<"\"", "A", "n", "n", "\"">>],
       [v |-> StrValue(<<"J", "o", "s", "U+00E9">>),
        text |-> <<"J", "o", "s", "U+00E9">>,
        json |-> <<"\"", "J", "o", "s", "U+00E9", "\"">>],
       [v |-> BoolValue(TRUE),
        text |-> <<"t", "r", "u", "e">>,
        json |-> <<"t", "r", "u", "e">>],
       [v |-> BoolValue(FALSE),
        text |-> <<"f", "a", "l", "s", "e">>,
        json |-> <<"f", "a", "l", "s", "e">>],
       [v |-> DecimalValue(1250, 2),
        text |-> <<"1", "2", ".", "5", "0">>,
        json |-> <<"1", "2", ".", "5">>],
       [v |-> DecimalValue(-75, 2),
        text |-> <<"-", "0", ".", "7", "5">>,
        json |-> <<"-", "0", ".", "7", "5">>],
       [v |-> BigDecimal,
        text |-> <<"1", "8", "4", "4", "6", "7", "4", "4", "0", "7", "3", "7", "0", "9",
                   "5", "5", "1", "6", "1", "6">>,
        json |-> <<"1", ".", "8", "4", "4", "6", "7", "4", "4", "0", "7", "3", "7", "0",
                   "9", "5", "5", "2", "e", "1", "9">>],
       [v |-> DateValue(2024, 1, 15),
        text |-> <<"2", "0", "2", "4", "-", "0", "1", "-", "1", "5">>,
        json |-> <<"\"", "2", "0", "2", "4", "-", "0", "1", "-", "1", "5", "\"">>],
       [v |-> DateValue(1999, 12, 31),
        text |-> <<"1", "9", "9", "9", "-", "1", "2", "-", "3", "1">>,
        json |-> <<"\"", "1", "9", "9", "9", "-", "1", "2", "-", "3", "1", "\"">>],
       [v |-> TimeValue(9, 30, 0),
        text |-> <<"0", "9", ":", "3", "0", ":", "0", "0">>,
        json |-> <<"\"", "0", "9", ":", "3", "0", ":", "0", "0", "\"">>],
       [v |-> TimeValue(23, 59, 59),
        text |-> <<"2", "3", ":", "5", "9", ":", "5", "9">>,
        json |-> <<"\"", "2", "3", ":", "5", "9", ":", "5", "9", "\"">>],
       [v |-> DateTimeValue(DateValue(2024, 1, 15), TimeValue(9, 30, 0)),
        text |-> <<"2", "0", "2", "4", "-", "0", "1", "-", "1", "5", " ", "0", "9", ":", "3", "0", ":", "0", "0">>,
        json |-> <<"\"", "2", "0", "2", "4", "-", "0", "1", "-", "1", "5", " ", "0", "9", ":", "3", "0", ":", "0", "0", "\"">>],
       [v |-> DateTimeValue(DateValue(1999, 12, 31), TimeValue(23, 59, 59)),
        text |-> <<"1", "9", "9", "9", "-", "1", "2", "-", "3", "1", " ", "2", "3", ":", "5", "9", ":", "5", "9">>,
        json |-> <<"\"", "1", "9", "9", "9", "-", "1", "2", "-", "3", "1", " ", "2", "3", ":", "5", "9", ":", "5", "9", "\"">>],
       [v |-> DateTimeTzValue(DateValue(2024, 1, 15), TimeValue(9, 30, 0), 60),
        text |-> <<"2", "0", "2", "4", "-", "0", "1", "-", "1", "5", " ", "0", "9", ":", "3", "0", ":", "0", "0", " ", "+", "0", "1", ":", "0", "0">>,
        json |-> <<"\"", "2", "0", "2", "4", "-", "0", "1", "-", "1", "5", " ", "0", "9", ":", "3", "0", ":", "0", "0", " ", "+", "0", "1", ":", "0", "0", "\"">>],
       [v |-> DateTimeTzValue(DateValue(1999, 12, 31), TimeValue(23, 59, 59), -330),
        text |-> <<"1", "9", "9", "9", "-", "1", "2", "-", "3", "1", " ", "2", "3", ":", "5", "9", ":", "5", "9", " ", "-", "0", "5", ":", "3", "0">>,
        json |-> <<"\"", "1", "9", "9", "9", "-", "1", "2", "-", "3", "1", " ", "2", "3", ":", "5", "9", ":", "5", "9", " ", "-", "0", "5", ":", "3", "0", "\"">>],
       [v |-> JsonColumnValue(JObject(<<[k |-> <<"a">>, v |-> JInt(1)]>>)),
        text |-> <<"{", "\"", "a", "\"", ":", "1", "}">>,
        json |-> <<"{", "\"", "a", "\"", ":", "1", "}">>],
       [v |-> JsonColumnValue(JString(<<"x", "\"">>)),
        text |-> <<"\"", "x", "\\", "\"", "\"">>,
        json |-> <<"\"", "x", "\\", "\"", "\"">>]
    >>

IntegerKinds == {"INT8", "INT16", "INT32", "INT64"}
NumberKinds == IntegerKinds \cup {"FLOAT32", "FLOAT64", "DECIMAL"}
StringKinds == {"STR", "DATE", "TIME", "DATETIME", "DATETIMETZ"}

\* The spreadsheet format and cell type of the spec's table, by kind.
TabledFormat(k) ==
    CASE k \in IntegerKinds -> "#,##0"
      [] k \in {"FLOAT32", "FLOAT64", "DECIMAL"} -> "#,##0.00"
      [] k = "DATE" -> "dd/mm/yyyy"
      [] k = "TIME" -> "hh:mm"
      [] k \in {"DATETIME", "DATETIMETZ"} -> "dd/mm/yyyy hh:mm:ss"
      [] OTHER -> "none"

TabledCellType(k) ==
    CASE k \in NumberKinds -> "Number"
      [] k = "BOOL" -> "Boolean"
      [] k \in {"DATE", "TIME", "DATETIME", "DATETIMETZ"} -> "DateTime"
      [] OTHER -> "String"

FormatOf(w) == IF w.fmt = "None" THEN "none" ELSE NumFormat[w.fmt]

IsNaN(v) == v.t = "float" /\ v.nan

\* The JSON type of the spec's table, by kind; nanIsNull says whether a NaN
\* float is excepted from "number" and tabled as null.
TabledJsonType(k, v, nanIsNull) ==
    CASE k \in NumberKinds -> IF nanIsNull /\ IsNaN(v) THEN "Null" ELSE "Number"
      [] k \in StringKinds -> "String"
      [] k = "BOOL" -> "Bool"
      [] OTHER -> v.j.j

\* Every cell rendered from a non-null value is the cell of the table.
CellsAsTabled(nanIsNull) ==
    \A r \in 1..Len(cells) : \A c \in 1..Len(cells[r]) :
        LET v == result[r].vals[c]
            k == columns[c].kind.tag
            cell == cells[r][c]
        IN  v # SqlNull =>
              \E i \in 1..Len(Samples) :
                /\ Samples[i].v = v
                /\ CASE writer = "gfm" -> cell = Samples[i].text
                     [] writer = "json" ->
                          /\ cell.j = TabledJsonType(k, v, nanIsNull)
                          /\ cell.j # "Null" => JsonText(cell) = Samples[i].json
                          /\ k = "JSON" => cell = v.j
                     [] writer = "xlsx" ->
                          /\ Len(cell) = 1
                          /\ cell[1].row = r /\ cell[1].col = c - 1
                          /\ FormatOf(cell[1]) = TabledFormat(k)
                          /\ cell[1].data.x = TabledCellType(k)
                     [] OTHER -> FALSE

\* C9 as stated: for every supported kind and each format, a non-null value
\* is rendered as the table says: the text table gives the value's text;
\* JSON gives a number for integer, float and decimal kinds, a string for
\* String and temporal kinds, a boolean for Bool and the value itself for
\* Json; the spreadsheet uses the integer, 2-decimal, date, time and
\* timestamp formats by kind and none for String, Bool and Json.
C9_CellsAsTabled == CellsAsTabled(FALSE)

\* C9 amended: as stated, except that a float that is NaN is rendered by the
\* JSON writer as null, not as a number.
C9_CellsAsTabledNaNNull == CellsAsTabled(TRUE)

\* C9 witness: a JSON export has rendered a float column holding a finite
\* value in one row and NaN in another.
C9_Witness ==
    /\ Finished
    /\ writer = "json"
    /\ \E c \in 1..Len(columns) : \E r, q \in 1..Len(cells) :
          /\ columns[c].kind.tag \in FloatKinds
          /\ IsNaN(result[r].vals[c]) /\ cells[r][c] = JNull
          /\ ~IsNaN(result[q].vals[c]) /\ result[q].vals[c] # SqlNull
          /\ cells[q][c].j = "Number"

\* The example of the spec: columns id, name, joined and the one row
\* {id: 1, name: "Ann", joined: 2024-01-15}.
ExampleRun ==
    /\ Len(schema) = 3
    /\ Names = << <<"i", "d">>, <<"n", "a", "m", "e">>, <<"j", "o", "i", "n", "e", "d">> >>
    /\ Len(result) = 1
    /\ result[1].vals = <<IntValue(1), StrValue(<<"A", "n", "n">>), DateValue(2024, 1, 15)>>

ExampleObject ==
    <<"{", "\"", "i", "d", "\"", ":", "1", ",", "\"", "n", "a", "m", "e", "\"", ":", "\"", "A", "n", "n", "\"", ",", "\"", "j", "o", "i", "n", "e", "d", "\"", ":", "\"", "2", "0", "2", "4", "-", "0", "1", "-", "1", "5", "\"", "}">>

\* C10: the JSON document is, in this order, the opening delimiter, then for
\* each row in source order one object followed by a separator (the last
\* one too), then the closing delimiter; there are as many objects as rows,
\* and the example row yields the object
\* {"id":1,"name":"Ann","joined":"2024-01-15"} followed by the separator.
C10_DocumentStructure ==
    (writer = "json" /\ pc \in {"json_rows", "done"}) =>
        LET lines == FileLines
            last == Len(lines)
        IN  /\ file.text = Join(lines, <<NewLine>>) \o <<NewLine>>
            /\ lines[1] = <<"[">>
            /\ last = 1 + rowsDone + (IF Finished THEN 1 ELSE 0)
            /\ Finished => rowsDone = Len(result) /\ lines[last] = <<"]">>
            /\ \A r \in 1..rowsDone :
                  /\ Len(lines[r + 1]) >= 3
                  /\ lines[r + 1][1] = "{"
                  /\ SubSeq(lines[r + 1], Len(lines[r + 1]) - 1, Len(lines[r + 1]))
                       = <<"}", ",">>
            /\ (Finished /\ ExampleRun) => lines[2] = ExampleObject \o <<",">>

\* ------------------------------------------------------------- C11
\* The schemes of the two supported backends, and the extensions of the three
\* output formats.
SupportedSchemes == {"postgres", "mysql"}
FormatExtensions == {"md", "json", "xlsx"}

\* C11: when the backend scheme or the output format is not a recognised one,
\* the program stops at the configuration error: it never connects to the
\* database, never runs the query, and the output file is never created or
\* written.
C11_ConfigErrorBeforeAnyWork ==
    (scheme \notin SupportedSchemes \/ output \notin FormatExtensions) =>
        /\ trail = <<>>
        /\ file = AbsentFile
        /\ mainPc # "exit"

\* ------------------------------------------------------------- C12
\* The panic of Option::unwrap() on None.
UnwrapNone == "called Option::unwrap() on a None value"

\* A Decimal with no f64 in this build: 2^64 where to_f64 goes through i64.
Unconvertible(v) == v = BigDecimal /\ narrow

\* The rows holding a Decimal that cannot be converted.
UnconvertibleRows ==
    {r \in 1..Len(result) : \E c \in 1..Len(result[r].vals) : Unconvertible(result[r].vals[c])}

\* C12: in the JSON and spreadsheet writers a Decimal that cannot be converted
\* to a float aborts the export: the row holding it and every later row is
\* never rendered and the writer never returns success.  The text-table writer
\* renders every Decimal as its decimal string and never raises that error.
C12_DecimalConversionAborts ==
    /\ writer \in {"json", "xlsx"} =>
          /\ \A r \in UnconvertibleRows : Len(cells) < r /\ rowsDone < r
          /\ UnconvertibleRows # {} => pc # "done"
    /\ writer = "gfm" =>
          /\ panicMsg.msg # UnwrapNone
          /\ \A r \in 1..Len(cells) : \A c \in 1..Len(cells[r]) :
                result[r].vals[c] # SqlNull /\ result[r].vals[c].t = "decimal" =>
                    cells[r][c] = IF result[r].vals[c] = BigDecimal THEN TwoTo64Text
                                  ELSE DecimalToText(result[r].vals[c])

\* C12 witness: a JSON export has emitted one row and then panicked on the
\* Decimal of the second row, which has no f64.
C12_Witness ==
    /\ writer = "json" /\ pc = "panic"
    /\ panicMsg = PanicAt("render", 1, UnwrapNone)
    /\ rowsDone = 1 /\ Len(result) = 2
    /\ UnconvertibleRows = {2}
    /\ file = TextFile(OpenArray
                        \o <<"{", "\"", "v", "a", "l", "\"", ":", "1", "2", ".", "5", "}">>
                        \o <<",", NewLine>>)

\* ------------------------------------------------------------- C13
\* The autofilter of the saved sheet: first row, first column, last row, last column.
SavedFilter == file.sheet.autofilter

\* C13: a spreadsheet saved for N >= 1 rows and C columns has header name j
\* at sheet row 0 column j, the cell of data row i column j at sheet row i + 1
\* column j, and a filter region covering rows 0 through N and columns 0
\* through C - 1.
C13_CellsAndFilterRegion ==
    (writer = "xlsx" /\ file.kind = "xlsx") =>
        LET N == Len(result)
            C == Len(columns)
            W == file.sheet.writes
        IN  /\ N >= 1
            /\ \A j \in 0..(C - 1) :
                  /\ W[j + 1].row = 0 /\ W[j + 1].col = j
                  /\ W[j + 1].data = XString(schema[j + 1].name)
            /\ \A k \in (C + 1)..Len(W) : W[k].row >= 1
            /\ \A i \in 0..(N - 1) : \A j \in 0..(C - 1) :
                  result[i + 1].vals[j + 1] # SqlNull =>
                      \E k \in (C + 1)..Len(W) :
                          /\ W[k].row = i + 1 /\ W[k].col = j
                          /\ W[k] \in {cells[i + 1][j + 1][n] : n \in 1..Len(cells[i + 1][j + 1])}
            /\ SavedFilter = <<0, 0, N, C - 1>>

\* ------------------------------------------------------------- C14
\* C14: the text-table and spreadsheet writers change the destination only in
\* the step that ends the export, after every row has been rendered, so an
\* export of theirs that panics leaves the destination as it was; the JSON
\* writer has the destination open before anything else and extends it with
\* each row it renders.
C14_DestinationWrittenLast ==
    [][ /\ (writer' \in {"gfm", "xlsx"} /\ file' # file) =>
              /\ rowsDone = Len(result) /\ Len(cells) = Len(result)
              /\ pc' = "done"
        /\ (writer' \in {"gfm", "xlsx"} /\ pc' = "panic") => file' = AbsentFile
        /\ writer' = "json" => file'.kind = "text"
        /\ (writer = "json" /\ cells' # cells) =>
              /\ Len(cells') = Len(cells) + 1
              /\ Len(file'.text) > Len(file.text)
              /\ SubSeq(file'.text, 1, Len(file.text)) = file.text ]_vars

\* C14 witness: a text-table export has panicked while rendering its second
\* row and the destination does not exist.
C14_Witness ==
    /\ writer = "gfm" /\ pc = "panic" /\ panicMsg.where = "render"
    /\ rowsDone = 1 /\ Len(result) = 2
    /\ file = AbsentFile

\* ------------------------------------------------------------- C15
\* What renderer j returns for row r in the running writer.
Applied(j, r) ==
    CASE writer = "gfm" -> GfmCall(convs[j], j, result[r])
      [] writer = "json" -> JsonCall(convs[j], j, result[r])
      [] writer = "xlsx" -> XlsxCall(convs[j], r, j - 1, result[r])

\* C15: in every writer, for a non-empty result set, the columns are those of
\* the first row, one renderer has been selected per column before any row is
\* rendered, and every rendered row has one cell per column, cell j being
\* what renderer j returns for position j of that row.
C15_OneRendererPerColumn ==
    /\ columns # <<>> =>
          /\ Len(columns) = Len(result[1].cols)
          /\ \A j \in 1..Len(columns) :
                /\ columns[j].name = result[1].cols[j].name
                /\ columns[j].kind = ColumnInto(backend, result[1].cols[j]).kind
    /\ (result # <<>> /\ (cells # <<>> \/ pc = "done")) =>
          /\ Len(convs) = Len(columns)
          /\ Len(columns) = Len(schema)
    /\ \A r \in 1..Len(cells) :
          /\ Len(cells[r]) = Len(columns)
          /\ \A j \in 1..Len(columns) :
                ~Applied(j, r).panic /\ cells[r][j] = Applied(j, r).val

\* C15 witness: an export of two rows and at least two columns has finished
\* with every row rendered.
C15_Witness ==
    /\ pc = "done" /\ Len(result) = 2 /\ Len(cells) = 2
    /\ Len(columns) >= 2 /\ Len(convs) = Len(columns)

\* ------------------------------------------------------------- C16
\* The queries main has run so far.
Fetches == {i \in 1..Len(trail) : trail[i] = Did("fetch")}

\* C16: when main runs the spreadsheet export and then the JSON export, the
\* two run one after the other, each with its own columns and renderers, on
\* one result set that was fetched once: the query is run at most once, and
\* no step of a writer changes the fetched rows.
C16_OneFetchForBothExports ==
    /\ Cardinality(Fetches) <= 1
    /\ mainPc = "to_json" => writer = "json"
    /\ mainPc = "to_xlsx" => writer \in {"none", "xlsx"}

\* ------------------------------------------------------------- C17
\* The lines a JSON export leaves after emitting n rows and no closing
\* delimiter: the opening delimiter, then one object and a comma per row.
UnterminatedArray(n) ==
    /\ file.kind = "text"
    /\ Len(FileLines) = n + 1
    /\ FileLines[1] = <<"[">>
    /\ \A r \in 1..n :
          \E ks \in Orderings({Names[c] : c \in 1..Len(Names)}) :
              FileLines[r + 1] = ObjectText(ks, [i \in 1..Len(ks) |-> LastCell(r, ks[i])])
                                 \o <<",">>
    /\ file.text[Len(file.text)] = NewLine

Occurrences(text, pat) ==
    {i \in 1..(Len(text) - Len(pat) + 1) : SubSeq(text, i, i + Len(pat) - 1) = pat}

\* The columns of a name, and whether some name is shared.
ColumnsNamed(name) == {c \in 1..Len(Names) : Names[c] = name}
SharedName == \E c, d \in 1..Len(Names) : c # d /\ Names[c] = Names[d]

\* C19: in the JSON writer, when two or more columns share a name, a row's
\* object holds that key once, with the value rendered from the last column
\* of that name, and has fewer keys than the result set has columns.
C19_SharedNameKeepsLast ==
    (writer = "json" /\ SharedName) =>
        \A r \in 1..Len(cells) :
            LET line == FileLines[r + 1]
                keys == Occurrences(line, <<"\"", ":">>)
            IN  /\ Cardinality(keys) < Len(Names)
                /\ Cardinality(keys) = Cardinality({Names[c] : c \in 1..Len(Names)})
                /\ \A c \in 1..Len(Names) :
                      LET last == CHOOSE d \in ColumnsNamed(Names[c]) :
                                      \A e \in ColumnsNamed(Names[c]) : e <= d
                          key == JsonQuote(Names[c]) \o <<":">>
                      IN  /\ Cardinality(Occurrences(line, key)) = 1
                          /\ Occurrences(line, key \o JsonText(cells[r][last])
                                               \o <<",">>)
                             \cup Occurrences(line, key \o JsonText(cells[r][last])
                                                    \o <<"}">>) # {}

\* C19 witness: a JSON export of the columns id (integer) and id (string) has
\* emitted a row, whose object holds only the string.
C19_Witness ==
    /\ writer = "json" /\ Len(cells) >= 1
    /\ Len(columns) = 2 /\ Names[1] = Names[2]
    /\ columns[1].kind.tag = "INT32" /\ columns[2].kind.tag = "STR"
    /\ FileLines[2] = <<"{", "\"", "i", "d", "\"", ":", "\"", "A", "n", "n", "\"", "}", ",">>

\* ------------------------------------------------------------- C20
\* The kinds decoded as plain values, and the rows of the result set holding
\* a null in a column of such a kind.
PlainKinds ==
    {"INT8", "INT16", "INT32", "INT64", "FLOAT32", "FLOAT64", "STR", "BOOL", "DECIMAL"}
PlainNullRows ==
    {r \in 1..Len(result) :
        \E c \in 1..Len(schema) :
            /\ ColumnInto(backend, schema[c]).kind.tag \in PlainKinds
            /\ result[r].vals[c] = SqlNull}

\* C20: in all three writers a null in a column of an integer, float, String,
\* Bool or Decimal kind aborts the export at the first row holding it: that
\* row and the rows after it are never rendered and the export never ends
\* with success; a null of one of the four temporal kinds never raises the
\* decoding failure.
C20_NullAbortsPlainKinds ==
    /\ \A r \in PlainNullRows : Len(cells) < r /\ rowsDone < r
    /\ PlainNullRows # {} => pc # "done"
    /\ (pc = "panic" /\ panicMsg.msg = "UnexpectedNullError") =>
          /\ panicMsg.where = "render"
          /\ columns[panicMsg.col].kind.tag \notin {"DATE", "TIME", "DATETIME", "DATETIMETZ"}
          /\ result[rowsDone + 1].vals[panicMsg.col] = SqlNull
          /\ columns[panicMsg.col].kind.tag \in PlainKinds =>
                \A r \in PlainNullRows : rowsDone + 1 <= r

\* C20 witness: a spreadsheet export has rendered one row and panicked on the
\* null integer of the second.
C20_Witness ==
    /\ writer = "xlsx" /\ pc = "panic"
    /\ panicMsg = PanicAt("render", 1, "UnexpectedNullError")
    /\ columns[1].kind.tag = "INT32"
    /\ rowsDone = 1 /\ Len(cells) = 1
    /\ PlainNullRows = {2}

=============================================================================
